---- MODULE Spec2Model ----
(***************************************************************************)
(* The chunked transcription pipeline of src/app/audio_transcriber.py:     *)
(* transcribe_audio -> convert_audio -> split_audio / transcribe_chunks.   *)
(* One run of transcribe_audio on one input file.  The two thread pools    *)
(* are modelled worker by worker; the remote transcription service, the    *)
(* audio codec and the filesystem are the environment and choose their     *)
(* outcomes nondeterministically.  TwoRunSpec, further down, is two        *)
(* concurrent runs over one shared disk.                                   *)
(*                                                                         *)
(* Python lists are sequences (1-based here): position p of `chunks` is    *)
(* chunk_index p - 1 of the source.  A text is a sequence of tokens, one   *)
(* token per word, the join separator " " being a token of its own, so     *)
(* that the empty string is << >> and separators can be counted.           *)
(***************************************************************************)
EXTENDS Integers, Sequences, FiniteSets, TLC

VARIABLES
    pc,              \* position of the run's main thread
    file,            \* the input: exists, size (bytes), duration (ms), loadable,
                     \* oversize (the segments whose exported artifact is too large)
    chunk_length_ms, \* split_audio's parameter
    max_threads,     \* the pools' width: split_audio's and transcribe_chunks' parameter
    result,          \* what transcribe_audio returned
    mode,            \* "none" | "single" | "multi": convert_audio's decision
    splitCalls,      \* number of calls of split_audio in this run
    chunk_dir,       \* path of the working directory, << >> when none
    dirExists,       \* the working directory is on disk
    artifacts,       \* segment indices whose chunk_XXXX.mp3 is on disk
    rmtreeCalls,     \* number of shutil.rmtree calls
    rmtreeFailed,    \* a removal failed (silently: ignore_errors=True)
    splitFailed,     \* split_audio raised
    tasks,           \* split_audio's task list: [start, end] per segment
    total_chunks,    \* split_audio's separately computed chunk count
    exp,             \* export worker state per segment index
    chunk_paths,     \* split_audio's result list (segment indices)
    chunks,          \* transcribe_chunks' argument (segment indices)
    tr,              \* transcription worker state per position of chunks
    calls,           \* calls of the transcription service per position
    transcripts,     \* transcribe_chunks' result list
    joined,          \* " ".join(transcripts)
    warned,          \* segment indices whose artifact split_audio flagged as too large
    iterating,       \* the main thread is inside the as_completed loop of the pool
    runs,            \* concurrent calls of transcribe_audio: each call's locals
    tmpdirs,         \* directories under tempfile.gettempdir() on the shared disk
    disk,            \* files on the shared disk: path -> the audio it holds
    probe,           \* two segment indices i < j of one run
    names,           \* the artifact names split_audio gives them
    folder_audio,    \* the audio files of a Drive folder: file id -> name
    json_files,      \* the JSON results in the folder, in upload order
    folder_pc,       \* position of process_folder
    run_no,          \* which run of process_folder over the folder this is
    processed_files_map, \* process_folder's map: original_file -> result name
    json_at_map,     \* number of JSON results in the folder when the map was built
    audio_files,     \* ids of the listed audio files still to be visited
    downloaded,      \* ids of the audio files this run downloaded
    transcribed,     \* ids of the audio files this run called transcribe_audio for
    uploaded         \* ids of the audio files this run called an upload for

oneVars == <<pc, file, chunk_length_ms, max_threads, result, mode, splitCalls, chunk_dir,
             dirExists, artifacts, rmtreeCalls, rmtreeFailed, splitFailed,
             tasks, total_chunks, exp, chunk_paths, chunks, tr, calls,
             transcripts, joined, warned, iterating>>

peerVars == <<runs, tmpdirs, disk>>

nameVars == <<probe, names>>

driveVars == <<folder_audio, json_files, folder_pc, run_no, processed_files_map,
               json_at_map, audio_files, downloaded, transcribed, uploaded>>

vars == <<oneVars, peerVars, nameVars, driveVars>>

inVars    == <<file, chunk_length_ms, max_threads>>
fsVars    == <<chunk_dir, dirExists, artifacts, rmtreeCalls, rmtreeFailed>>
splitVars == <<tasks, total_chunks, exp, chunk_paths>>
trVars    == <<chunks, tr, calls, transcripts, joined>>

----------------------------------------------------------------------------
(* Bounds of the model. *)

\* Largest number of segments an input of the pipeline is split into.
MaxSegments == 3
\* Largest duration and chunk length (ms) tried on split_audio's arithmetic.
MaxLenMs == 12
MaxChunkMs == 5
\* Largest pool width tried besides the default.
MaxThreads == 2
\* Largest of the consecutive segment indices whose names are compared.
MaxNameIndex == 11

----------------------------------------------------------------------------
(* Program constants. *)

MAX_CHUNK_SIZE == 25 * 1024 * 1024

DefaultChunkLengthMs == 5 * 60 * 1000

DefaultMaxThreads == 4

ErrNotFound == "Audio file not found"

ErrEmpty == "Transcription failed or returned empty result"

ErrException == "Error transcribing audio"

\* tempfile.gettempdir() and the directory tempfile.mkdtemp creates in it.
TempDir == <<"tmp">>

Mkdtemp == TempDir \o <<"audio_chunks_">>

SPACE == " "

\* The text the service returns for segment i when it returns text: one word,
\* different for different segments.
Words == <<"w0", "w1", "w2", "w3", "w4", "w5", "w6", "w7">>

SegText(i) == <<Words[i + 1]>>

----------------------------------------------------------------------------
(* Pure functions of the source. *)

Min(a, b) == IF a < b THEN a ELSE b

\* str.startswith on paths.
StartsWith(p, q) == Len(q) <= Len(p) /\ SubSeq(p, 1, Len(q)) = q

PathMissingNever(f) == FALSE

\* `if not os.path.exists(audio_file_path)`
PathMissing(f) == ~f.exists

NeedsSplitOffByOne(file_size) == file_size > MAX_CHUNK_SIZE

\* convert_audio: `if file_size < MAX_CHUNK_SIZE: ... else: split`
NeedsSplit(file_size) == ~(file_size < MAX_CHUNK_SIZE)

TotalChunksFloor(len, chunk) == len \div chunk

\* total_chunks = (len(audio) + chunk_length_ms - 1) // chunk_length_ms
TotalChunks(len, chunk) == (len + chunk - 1) \div chunk

ChunkEndNoMin(start, len, chunk) == start + chunk

\* end = min(start + chunk_length_ms, len(audio))
ChunkEnd(start, len, chunk) == Min(start + chunk, len)

\* range(start, stop, step)
RECURSIVE Range(_, _, _)
Range(start, stop, step) ==
    IF start < stop THEN <<start>> \o Range(start + step, stop, step) ELSE << >>

\* for i, start in enumerate(range(0, len(audio), chunk_length_ms)): tasks.append
Tasks(len, chunk) ==
    LET starts == Range(0, len, chunk)
    IN  [k \in 1..Len(starts) |->
            [start |-> starts[k], end |-> ChunkEnd(starts[k], len, chunk)]]

RECURSIVE JoinTrailingSeparator(_)
JoinTrailingSeparator(ts) ==
    IF Len(ts) = 0 THEN << >>
    ELSE ts[1] \o <<SPACE>> \o JoinTrailingSeparator(Tail(ts))

\* " ".join(transcripts)
RECURSIVE Join(_)
Join(ts) ==
    IF Len(ts) = 0 THEN << >>
    ELSE IF Len(ts) = 1 THEN ts[1]
    ELSE ts[1] \o <<SPACE>> \o Join(Tail(ts))

\* A name is the sequence of the code points of its characters, so that
\* names compare as Python strings do.
ChunkPrefix == <<99, 104, 117, 110, 107, 95>>

ChunkSuffix == <<46, 109, 112, 51>>

\* The minimum field width of the format specification 04d.
PaddedWidth == 4

\* The decimal digits of i, most significant first.
RECURSIVE Digits(_)
Digits(i) == IF i < 10 THEN <<i>> ELSE Digits(i \div 10) \o <<i % 10>>

PadDigitsNone(ds, width) == ds

\* Zero padding to a minimum width: longer numbers are not cut.
PadDigits(ds, width) ==
    IF Len(ds) >= width THEN ds
    ELSE [n \in 1..(width - Len(ds)) |-> 0] \o ds

\* f"chunk_{i:04d}.mp3"
ChunkName(i) ==
    LET ds == PadDigits(Digits(i), PaddedWidth)
    IN  ChunkPrefix \o [n \in 1..Len(ds) |-> 48 + ds[n]] \o ChunkSuffix

\* `if not transcription`
IsEmptyNever(transcription) == FALSE

IsEmpty(transcription) == transcription = << >>

SplitCleanupGuardNever(dir) == FALSE

\* split_audio's except: `if chunk_dir and chunk_dir.startswith(gettempdir())`
SplitCleanupGuard(dir) == dir # << >> /\ StartsWith(dir, TempDir)

FinallyCleanupGuardNever(dir) == FALSE

\* convert_audio's finally: the same test
FinallyCleanupGuard(dir) == dir # << >> /\ StartsWith(dir, TempDir)

----------------------------------------------------------------------------
(* Results of transcribe_audio. *)

NoResult == [pending |-> TRUE]

Success(t) == [success |-> TRUE, transcription |-> t]

Failure(e) == [success |-> FALSE, error |-> e]

Returned == pc = "Done"

----------------------------------------------------------------------------
(* The inputs. *)

FileSizes == {8 * 1024 * 1024, MAX_CHUNK_SIZE - 1, MAX_CHUNK_SIZE, 60 * 1024 * 1024}

Durations ==
    {0, 1} \cup {k * DefaultChunkLengthMs : k \in 1..MaxSegments}
           \cup {k * DefaultChunkLengthMs + 1 : k \in 1..(MaxSegments - 1)}

Files ==
    {[exists |-> FALSE, size |-> 0, duration |-> 0, loadable |-> FALSE, oversize |-> {}]}
    \cup [exists : {TRUE}, size : FileSizes, duration : Durations, loadable : BOOLEAN,
          oversize : {{}}]

InitRun ==
    /\ result = NoResult
    /\ mode = "none"
    /\ splitCalls = 0
    /\ chunk_dir = << >>
    /\ dirExists = FALSE
    /\ artifacts = {}
    /\ rmtreeCalls = 0
    /\ rmtreeFailed = FALSE
    /\ splitFailed = FALSE
    /\ tasks = << >>
    /\ total_chunks = 0
    /\ exp = << >>
    /\ chunk_paths = << >>
    /\ chunks = << >>
    /\ tr = << >>
    /\ calls = << >>
    /\ transcripts = << >>
    /\ joined = << >>
    /\ iterating = FALSE
    /\ warned = {}

\* No artifact names are looked at.
NoNames ==
    /\ probe = << >>
    /\ names = << >>

\* No run of process_folder.
NoDrive ==
    /\ folder_audio = << >>
    /\ json_files = << >>
    /\ folder_pc = "Idle"
    /\ run_no = 0
    /\ processed_files_map = << >>
    /\ json_at_map = 0
    /\ audio_files = << >>
    /\ downloaded = {}
    /\ transcribed = {}
    /\ uploaded = {}

\* No concurrent call of transcribe_audio.
NoPeers ==
    /\ runs = << >>
    /\ tmpdirs = {}
    /\ disk = << >>

Init ==
    /\ pc = "Created"
    /\ file \in Files
    /\ chunk_length_ms = DefaultChunkLengthMs
    /\ max_threads = DefaultMaxThreads
    /\ InitRun
    /\ NoNames
    /\ NoPeers
    /\ NoDrive

----------------------------------------------------------------------------
(* shutil.rmtree(chunk_dir, ignore_errors=True): removes the directory and *)
(* what is in it, or fails and says nothing.                               *)

Rmtree(guard) ==
    IF guard
    THEN /\ rmtreeCalls' = rmtreeCalls + 1
         /\ \/ /\ dirExists' = FALSE
               /\ artifacts' = {}
               /\ UNCHANGED rmtreeFailed
            \/ /\ dirExists
               /\ rmtreeFailed' = TRUE
               /\ UNCHANGED <<dirExists, artifacts>>
    ELSE UNCHANGED <<dirExists, artifacts, rmtreeCalls, rmtreeFailed>>

SplitRaisesUncaught ==
    /\ Rmtree(SplitCleanupGuard(chunk_dir))
    /\ splitFailed' = TRUE
    /\ result' = NoResult
    /\ pc' = "Done"
    /\ UNCHANGED chunk_dir

\* split_audio's except clause (remove, re-raise), the exception passing
\* through convert_audio (the call is outside its try) into transcribe_audio's
\* except clause, which returns the error result.
SplitRaises ==
    /\ Rmtree(SplitCleanupGuard(chunk_dir))
    /\ splitFailed' = TRUE
    /\ result' = Failure(ErrException)
    /\ pc' = "Done"
    /\ UNCHANGED chunk_dir

----------------------------------------------------------------------------
(* transcribe_audio and convert_audio. *)

\* transcribe_audio is entered.
Call ==
    /\ pc = "Created"
    /\ pc' = "Validating"
    /\ UNCHANGED <<inVars, peerVars, driveVars, nameVars, warned, iterating, result, mode, splitCalls, splitFailed,
                   fsVars, splitVars, trVars>>

\* `if not os.path.exists(audio_file_path): return {...}`
Validate ==
    /\ pc = "Validating"
    /\ IF PathMissing(file)
       THEN /\ result' = Failure(ErrNotFound)
            /\ pc' = "Done"
       ELSE /\ pc' = "Deciding"
            /\ UNCHANGED result
    /\ UNCHANGED <<inVars, peerVars, driveVars, nameVars, warned, iterating, mode, splitCalls, splitFailed,
                   fsVars, splitVars, trVars>>

\* transcribe_chunks(chunks): every chunk is submitted to the pool.
Submit(cs) ==
    /\ chunks' = cs
    /\ tr' = [p \in 1..Len(cs) |-> "pending"]
    /\ calls' = [p \in 1..Len(cs) |-> 0]
    /\ transcripts' = << >>
    /\ iterating' = FALSE
    /\ UNCHANGED joined

\* convert_audio: the size decision; the whole file as one chunk, or the
\* call of split_audio up to its mkdtemp / makedirs.
Decide ==
    /\ pc = "Deciding"
    /\ IF NeedsSplit(file.size)
       THEN /\ mode' = "multi"
            /\ splitCalls' = splitCalls + 1
            /\ chunk_dir' = Mkdtemp
            /\ dirExists' = TRUE
            /\ pc' = "Splitting"
            /\ UNCHANGED <<trVars, iterating>>
       ELSE /\ mode' = "single"
            /\ Submit(<<0>>)
            /\ pc' = "Transcribing"
            /\ UNCHANGED <<splitCalls, chunk_dir, dirExists>>
    /\ UNCHANGED <<inVars, peerVars, driveVars, nameVars, warned, result, splitFailed, artifacts,
                   rmtreeCalls, rmtreeFailed, splitVars>>

----------------------------------------------------------------------------
(* split_audio. *)

\* AudioSegment.from_file, the chunk count, the task list and the submission
\* of every export; or the load raises.
LoadAudio ==
    /\ pc = "Splitting"
    /\ IF file.loadable
       THEN /\ total_chunks' = TotalChunks(file.duration, chunk_length_ms)
            /\ tasks' = Tasks(file.duration, chunk_length_ms)
            /\ exp' = [k \in 1..Len(tasks') |-> "pending"]
            /\ chunk_paths' = << >>
            /\ pc' = "Exporting"
            /\ UNCHANGED <<result, splitFailed, fsVars>>
       ELSE /\ SplitRaises
            /\ UNCHANGED splitVars
    /\ UNCHANGED <<inVars, peerVars, driveVars, nameVars, warned, iterating, mode, splitCalls, trVars>>

Running(w) == {k \in DOMAIN w : w[k] \in {"running", "calling"}}

PoolUnbounded(w, width) == TRUE

\* ThreadPoolExecutor(max_workers=max_threads): a submitted task waits until
\* one of the pool's threads is free.
PoolHasFreeWorker(w, width) == Cardinality(Running(w)) < width

NextInQueueTakesAgain(w, k) == w[k] \notin {"running", "calling"}

\* The pool's work queue is first in, first out: a free thread takes the
\* earliest submitted task that is still waiting.
NextInQueue(w, k) == w[k] = "pending" /\ \A j \in DOMAIN w : j < k => w[j] # "pending"

\* The orders in which a set of futures can be handed out.
Orders(S) ==
    {o \in [1..Cardinality(S) -> S] : \A i, j \in 1..Cardinality(S) : i # j => o[i] # o[j]}

\* A pool thread takes export k.
ExportStart(k) ==
    /\ pc = "Exporting"
    /\ NextInQueue(exp, k)
    /\ PoolHasFreeWorker(exp, max_threads)
    /\ exp' = [exp EXCEPT ![k] = "running"]
    /\ UNCHANGED <<pc, inVars, peerVars, driveVars, nameVars, warned, iterating, result, mode, splitCalls,
                   splitFailed, fsVars, tasks, total_chunks, chunk_paths, trVars>>

\* The paths appended for the futures in `order`: chunk_paths.append(
\* future.result()) until a future.result() raises.
AppendedPaths(order) ==
    LET bad == {i \in DOMAIN order : exp[order[i]] = "failed"}
        n   == IF bad = {} THEN Len(order)
               ELSE (CHOOSE i \in bad : \A j \in bad : i <= j) - 1
    IN  [i \in 1..n |-> order[i] - 1]

\* The main thread enters `for future in as_completed(futures)`: the futures
\* that are already finished are kept in a set and handed out first, in the
\* set's order, which is any order.
AsCompletedExports ==
    /\ pc = "Exporting"
    /\ ~iterating
    /\ iterating' = TRUE
    /\ \E order \in Orders({k \in DOMAIN exp : exp[k] \in {"ok", "failed"}}) :
          chunk_paths' = AppendedPaths(order)
    /\ UNCHANGED <<pc, inVars, peerVars, driveVars, nameVars, warned, result, mode, splitCalls,
                   splitFailed, fsVars, tasks, total_chunks, exp, trVars>>

\* export_chunk returns its path or raises; once the main thread is in the
\* loop, as_completed hands it the future as it finishes, and the main
\* thread appends the path until a future.result() raises.
ExportFinish(k) ==
    /\ pc = "Exporting"
    /\ exp[k] = "running"
    /\ \/ /\ exp' = [exp EXCEPT ![k] = "ok"]
          /\ artifacts' = artifacts \cup {k - 1}
          /\ chunk_paths' = IF ~iterating \/ \E j \in DOMAIN exp : exp[j] = "failed"
                            THEN chunk_paths
                            ELSE Append(chunk_paths, k - 1)
       \/ /\ exp' = [exp EXCEPT ![k] = "failed"]
          /\ UNCHANGED <<artifacts, chunk_paths>>
    /\ UNCHANGED <<pc, inVars, peerVars, driveVars, nameVars, warned, iterating, result, mode, splitCalls,
                   splitFailed, chunk_dir, dirExists, rmtreeCalls, rmtreeFailed,
                   tasks, total_chunks, trVars>>

ExportsOverNoWait == TRUE

ExportsOverCancelPending ==
    \/ /\ \E k \in DOMAIN exp : exp[k] = "failed"
       /\ \A k \in DOMAIN exp : exp[k] # "running"
    \/ \A k \in DOMAIN exp : exp[k] \in {"ok", "failed"}

ExportsOverAllOk == \A k \in DOMAIN exp : exp[k] = "ok"

\* The end of the with block: ThreadPoolExecutor.__exit__ waits for every
\* submitted export, also after a future.result() raised.
ExportsOver == \A k \in DOMAIN exp : exp[k] \in {"ok", "failed"}

\* os.path.getsize(chunk_path) of the artifact of segment i.
ArtifactSize(i) == IF i \in file.oversize THEN MAX_CHUNK_SIZE + 1 ELSE MAX_CHUNK_SIZE

\* `if size > MAX_CHUNK_SIZE: print(Warning ...)` for every returned path.
Flagged(paths) == {paths[n] : n \in {n \in DOMAIN paths : ArtifactSize(paths[n]) > MAX_CHUNK_SIZE}}

FitsLimit(i) == ArtifactSize(i) <= MAX_CHUNK_SIZE

ReturnedPathsWithoutFlagged(paths) == SelectSeq(paths, FitsLimit)

\* `return chunk_paths, chunk_dir`
ReturnedPaths(paths) == paths

\* The pool is joined (the with block ends); every export succeeded: the
\* size check, then split_audio returns chunk_paths and convert_audio calls
\* transcribe_chunks.
SplitReturn ==
    /\ pc = "Exporting"
    /\ iterating
    /\ ExportsOver
    /\ ~\E k \in DOMAIN exp : exp[k] = "failed"
    /\ warned' = Flagged(chunk_paths)
    /\ Submit(ReturnedPaths(chunk_paths))
    /\ pc' = "Transcribing"
    /\ UNCHANGED <<inVars, peerVars, driveVars, nameVars, result, mode, splitCalls, splitFailed,
                   fsVars, splitVars>>

\* The pool is joined; an export raised.
SplitExportFailed ==
    /\ pc = "Exporting"
    /\ iterating
    /\ ExportsOver
    /\ \E k \in DOMAIN exp : exp[k] = "failed"
    /\ SplitRaises
    /\ UNCHANGED <<inVars, peerVars, driveVars, nameVars, warned, iterating, mode, splitCalls, splitVars, trVars>>

----------------------------------------------------------------------------
(* transcribe_chunks and transcribe_chunk. *)

TranscribeStartCollectsRaise(p) ==
    /\ pc = "Transcribing"
    /\ NextInQueue(tr, p)
    /\ PoolHasFreeWorker(tr, max_threads)
    /\ \/ /\ tr' = [tr EXCEPT ![p] = "calling"]
          /\ calls' = [calls EXCEPT ![p] = @ + 1]
          /\ UNCHANGED transcripts
       \/ /\ tr' = [tr EXCEPT ![p] = "raised"]
          /\ transcripts' = Append(transcripts, << >>)
          /\ UNCHANGED calls
    /\ UNCHANGED <<pc, inVars, peerVars, driveVars, nameVars, warned, iterating, result, mode, splitCalls,
                   splitFailed, fsVars, splitVars, chunks, joined>>

\* A pool thread takes position p: open(chunk_path) raises, or the service is
\* called.
TranscribeStart(p) ==
    /\ pc = "Transcribing"
    /\ NextInQueue(tr, p)
    /\ PoolHasFreeWorker(tr, max_threads)
    /\ \/ /\ tr' = [tr EXCEPT ![p] = "calling"]
          /\ calls' = [calls EXCEPT ![p] = @ + 1]
       \/ /\ tr' = [tr EXCEPT ![p] = "raised"]
          /\ UNCHANGED calls
    /\ UNCHANGED <<pc, inVars, peerVars, driveVars, nameVars, warned, iterating, result, mode, splitCalls,
                   splitFailed, fsVars, splitVars, chunks, transcripts, joined>>

\* What transcribe_chunk returns for an outcome of the call.
ChunkResult(seg, outcome) == IF outcome = "text" THEN SegText(seg) ELSE << >>

AfterCallNoExcept(outcome) == IF outcome = "error" THEN "raised" ELSE outcome

AfterCallRetry(outcome) == IF outcome = "error" THEN "pending" ELSE outcome

\* How the worker ends for an outcome of the call: the try/except around the
\* call turns an exception (a service error, a response without .text) into
\* a return; nothing is tried again.
AfterCall(outcome) == outcome

\* The main thread enters `for future in as_completed(futures)`: what the
\* futures that are already finished returned is appended in the order of
\* as_completed's set, which is any order; nothing for a future that raised.
AsCompletedTranscripts ==
    /\ pc = "Transcribing"
    /\ ~iterating
    /\ iterating' = TRUE
    /\ \E order \in Orders({p \in DOMAIN tr : tr[p] \in {"text", "empty", "error"}}) :
          transcripts' = [i \in 1..Len(order) |->
                             ChunkResult(chunks[order[i]], tr[order[i]])]
    /\ UNCHANGED <<pc, inVars, peerVars, driveVars, nameVars, warned, result, mode, splitCalls,
                   splitFailed, fsVars, splitVars, chunks, tr, calls, joined>>

\* The call returns text, returns empty text, or raises (then "" is
\* returned); once the main thread is in the loop it appends what the future
\* returned, and appends nothing for a future that raised.
TranscribeFinish(p) ==
    /\ pc = "Transcribing"
    /\ tr[p] = "calling"
    /\ \E outcome \in {"text", "empty", "error"} :
          /\ tr' = [tr EXCEPT ![p] = AfterCall(outcome)]
          /\ transcripts' = IF ~iterating \/ AfterCall(outcome) = "raised"
                            THEN transcripts
                            ELSE Append(transcripts, ChunkResult(chunks[p], outcome))
    /\ UNCHANGED <<pc, inVars, peerVars, driveVars, nameVars, warned, iterating, result, mode, splitCalls,
                   splitFailed, fsVars, splitVars, chunks, calls, joined>>

TranscriptionsOverNoWait == TRUE

TranscriptionsOverTimeout ==
    \A p \in DOMAIN tr : tr[p] \in {"calling", "text", "empty", "error", "raised"}

TranscriptionsOverFirstFailure ==
    \/ \E p \in DOMAIN tr : tr[p] \in {"error", "raised"}
    \/ \A p \in DOMAIN tr : tr[p] \in {"text", "empty", "error", "raised"}

\* The end of the with block: the pool is joined.
TranscriptionsOver ==
    \A p \in DOMAIN tr : tr[p] \in {"text", "empty", "error", "raised"}

\* The pool is joined: `return " ".join(transcripts)`
JoinTranscripts ==
    /\ pc = "Transcribing"
    /\ iterating
    /\ TranscriptionsOver
    /\ joined' = Join(transcripts)
    /\ pc' = "Joining"
    /\ UNCHANGED <<inVars, peerVars, driveVars, nameVars, warned, iterating, result, mode, splitCalls, splitFailed,
                   fsVars, splitVars, chunks, tr, calls, transcripts>>

CleanupWithoutWaiting ==
    /\ pc \in {"Transcribing", "Joining"}
    /\ mode = "multi"
    /\ Rmtree(FinallyCleanupGuard(chunk_dir))
    /\ pc' = "CleaningUp"
    /\ UNCHANGED <<inVars, peerVars, driveVars, nameVars, warned, iterating, result, mode, splitCalls, splitFailed,
                   chunk_dir, splitVars, trVars>>

\* convert_audio's finally clause (multi-segment mode only).
Cleanup ==
    /\ pc = "Joining"
    /\ mode = "multi"
    /\ Rmtree(FinallyCleanupGuard(chunk_dir))
    /\ pc' = "CleaningUp"
    /\ UNCHANGED <<inVars, peerVars, driveVars, nameVars, warned, iterating, result, mode, splitCalls, splitFailed,
                   chunk_dir, splitVars, trVars>>

ReturnValueUnlessRemovalFailed(transcription) ==
    IF rmtreeFailed THEN Failure(ErrException)
    ELSE IF IsEmpty(transcription) THEN Failure(ErrEmpty) ELSE Success(transcription)

\* What transcribe_audio returns for what convert_audio returned.
ReturnValue(transcription) ==
    IF IsEmpty(transcription) THEN Failure(ErrEmpty) ELSE Success(transcription)

\* transcribe_audio: `if not transcription: ... return`
Return ==
    /\ \/ pc = "CleaningUp"
       \/ pc = "Joining" /\ mode = "single"
    /\ result' = ReturnValue(joined)
    /\ pc' = "Done"
    /\ UNCHANGED <<inVars, peerVars, driveVars, nameVars, warned, iterating, mode, splitCalls, splitFailed,
                   fsVars, splitVars, trVars>>

Next ==
    \/ Call
    \/ Validate
    \/ Decide
    \/ LoadAudio
    \/ \E k \in DOMAIN exp : ExportStart(k)
    \/ \E k \in DOMAIN exp : ExportFinish(k)
    \/ AsCompletedExports
    \/ SplitReturn
    \/ SplitExportFailed
    \/ \E p \in DOMAIN tr : TranscribeStart(p)
    \/ \E p \in DOMAIN tr : TranscribeFinish(p)
    \/ AsCompletedTranscripts
    \/ JoinTranscripts
    \/ Cleanup
    \/ Return

Spec == Init /\ [][Next]_vars

\* Every external call (audio load, export, transcription call) returns or
\* raises and the pools' threads are scheduled: a step that can be taken is
\* eventually taken.
FairSpec == Spec /\ WF_vars(Next)

----------------------------------------------------------------------------
(* split_audio's arithmetic alone, on every duration and chunk length of a *)
(* bounded range.                                                          *)

SplitInit ==
    /\ pc = "SplitCall"
    /\ file \in [exists : {TRUE}, size : {MAX_CHUNK_SIZE}, duration : 0..MaxLenMs,
                 loadable : {TRUE}, oversize : {{}}]
    /\ chunk_length_ms \in 1..MaxChunkMs
    /\ max_threads = DefaultMaxThreads
    /\ InitRun
    /\ NoNames
    /\ NoPeers
    /\ NoDrive

SplitCompute ==
    /\ pc = "SplitCall"
    /\ total_chunks' = TotalChunks(file.duration, chunk_length_ms)
    /\ tasks' = Tasks(file.duration, chunk_length_ms)
    /\ pc' = "SplitDone"
    /\ UNCHANGED <<inVars, peerVars, driveVars, nameVars, warned, iterating, result, mode, splitCalls, splitFailed,
                   fsVars, exp, chunk_paths, trVars>>

SplitNext == SplitCompute

SplitSpec == SplitInit /\ [][SplitNext]_vars

----------------------------------------------------------------------------
(* The pipeline on inputs that are split, with pools narrower than the     *)
(* number of segments: max_threads is a parameter of split_audio and of    *)
(* transcribe_chunks.                                                      *)

PoolInit ==
    /\ pc = "Created"
    /\ file \in [exists : {TRUE}, size : {60 * 1024 * 1024},
                 duration : {k * DefaultChunkLengthMs : k \in 1..MaxSegments},
                 loadable : {TRUE}, oversize : {{}}]
    /\ chunk_length_ms = DefaultChunkLengthMs
    /\ max_threads \in (1..MaxThreads) \cup {DefaultMaxThreads}
    /\ InitRun
    /\ NoNames
    /\ NoPeers
    /\ NoDrive

PoolSpec == PoolInit /\ [][Next]_vars

\* The steps of the run other than the return of the transcription call of
\* position h.
StepsButReturnOf(h) ==
    \/ Call
    \/ Validate
    \/ Decide
    \/ LoadAudio
    \/ \E k \in DOMAIN exp : ExportStart(k)
    \/ \E k \in DOMAIN exp : ExportFinish(k)
    \/ AsCompletedExports
    \/ SplitReturn
    \/ SplitExportFailed
    \/ \E p \in DOMAIN tr : TranscribeStart(p)
    \/ \E p \in DOMAIN tr \ {h} : TranscribeFinish(p)
    \/ AsCompletedTranscripts
    \/ JoinTranscripts
    \/ Cleanup
    \/ Return

\* The pipeline when the first transcription call need not return: every
\* other step that can be taken is eventually taken.
HungCallSpec == PoolSpec /\ WF_vars(StepsButReturnOf(1))

----------------------------------------------------------------------------
(* The pipeline on inputs whose exported segments exceed MAX_CHUNK_SIZE:    *)
(* none of them, one of them, or all of them.                               *)

OversizeInit ==
    /\ pc = "Created"
    /\ file \in [exists : {TRUE}, size : {60 * 1024 * 1024},
                 duration : {k * DefaultChunkLengthMs : k \in 1..MaxSegments},
                 loadable : {TRUE}, oversize : SUBSET (0..(MaxSegments - 1))]
    /\ \A i \in file.oversize : i * DefaultChunkLengthMs < file.duration
    /\ Cardinality(file.oversize) \in {0, 1, TotalChunks(file.duration, DefaultChunkLengthMs)}
    /\ chunk_length_ms = DefaultChunkLengthMs
    /\ max_threads = DefaultMaxThreads
    /\ InitRun
    /\ NoNames
    /\ NoPeers
    /\ NoDrive

OversizeSpec == OversizeInit /\ [][Next]_vars

----------------------------------------------------------------------------
(* The artifact names of split_audio's loop alone, on pairs of segment     *)
(* indices: the small ones, and those around every power of ten up to the  *)
(* first index that does not fit the padded width.                         *)

NameIndices ==
    (0..MaxNameIndex)
    \cup {10 ^ e - 1 : e \in 1..PaddedWidth} \cup {10 ^ e : e \in 1..PaddedWidth}
    \cup {10 ^ PaddedWidth + 1}

NameInit ==
    /\ pc = "NameCall"
    /\ file = [exists |-> TRUE, size |-> MAX_CHUNK_SIZE, duration |-> 0,
               loadable |-> TRUE, oversize |-> {}]
    /\ chunk_length_ms = DefaultChunkLengthMs
    /\ max_threads = DefaultMaxThreads
    /\ InitRun
    /\ NoPeers
    /\ NoDrive
    /\ probe \in {pr \in NameIndices \X NameIndices : pr[1] < pr[2]}
    /\ names = << >>

\* chunk_path = os.path.join(chunk_dir, f"chunk_{i:04d}.mp3") for both.
NameCompute ==
    /\ pc = "NameCall"
    /\ names' = <<ChunkName(probe[1]), ChunkName(probe[2])>>
    /\ pc' = "NameDone"
    /\ UNCHANGED <<inVars, peerVars, driveVars, warned, iterating, probe, result, mode, splitCalls,
                   splitFailed, fsVars, splitVars, trVars>>

NameNext == NameCompute

NameSpec == NameInit /\ [][NameNext]_vars

----------------------------------------------------------------------------
(* What the claims speak of. *)

\* The run got as far as the join (transcribe_chunks returned).
JoinDone == pc \in {"Joining", "CleaningUp", "Done"} /\ mode # "none"

\* The position of segment i in chunks, and what its worker ended with.
PosOf(i) == CHOOSE p \in DOMAIN chunks : chunks[p] = i

SegOutcome(i) == tr[PosOf(i)]

SegIndices == [k \in 1..Len(chunks) |-> k - 1]

IsPermutation == \A k \in 1..Len(chunks) : \E p \in DOMAIN chunks : chunks[p] = k - 1

\* The segments' returned texts, in index order.
TextsInIndexOrder == [k \in 1..Len(chunks) |-> ChunkResult(k - 1, SegOutcome(k - 1))]

GotText(i) == SegOutcome(i) = "text"

\* The successful segments' texts, in index order.
SuccessfulTextsInIndexOrder ==
    LET ok == SelectSeq(SegIndices, GotText)
    IN  [k \in 1..Len(ok) |-> SegText(ok[k])]

FailedCount == Cardinality({p \in DOMAIN tr : tr[p] # "text"})

\* ceil(a / b), by its definition.
CeilDiv(a, b) == CHOOSE n \in 0..a : n * b >= a /\ (n = 0 \/ (n - 1) * b < a)

TaskLen(k) == tasks[k].end - tasks[k].start

----------------------------------------------------------------------------
(* The claims. *)

\* C1: in a multi-segment run with N >= 2 segments whose workers all
\* returned, the transcript is the per-segment texts joined by single spaces
\* in increasing segment index order, whatever the completion order.
\* (Stated as the claim has it, for the runs in which split_audio returned
\* the paths in index order, so that a violation is transcribe_chunks' own:
\* the code appends in completion order.)
C1_JoinInIndexOrder ==
    (/\ JoinDone
     /\ mode = "multi"
     /\ Len(chunks) >= 2
     /\ chunks = SegIndices
     /\ \A p \in DOMAIN tr : tr[p] \in {"text", "empty", "error"})
    => joined = Join(TextsInIndexOrder)

\* C2: if every one of the N >= 1 segments fails transcription (the call
\* errors or yields empty text), transcribe_audio returns success = false
\* with the error "Transcription failed or returned empty result".
\* (Stated as the claim has it; for N >= 2 the code joins N empty strings
\* into N - 1 spaces, which is not empty.)
C2_AllFailedReportsFailure ==
    (/\ pc = "Done"
     /\ Len(chunks) >= 1
     /\ \A p \in DOMAIN tr : tr[p] \in {"empty", "error"})
    => result = Failure(ErrEmpty)

\* C3: if k of the N segments fail with 1 <= k < N, transcribe_audio returns
\* success = true and the transcript is the successful segments' texts in
\* index order with exactly one space between consecutive texts.
\* (Stated as the claim has it.)
C3_PartialFailureJoin ==
    (/\ pc = "Done"
     /\ mode # "none"
     /\ ~splitFailed
     /\ 1 <= FailedCount
     /\ FailedCount < Len(chunks))
    => result = Success(Join(SuccessfulTextsInIndexOrder))

\* C4, as the claim has it: whenever transcribe_audio has returned, the
\* working directory of the run does not exist.
C4_DirAbsentAfterReturn == pc = "Done" => ~dirExists

\* C4, amended: whenever transcribe_audio has returned, a run that created a
\* working directory has called rmtree on it exactly once, and the directory
\* (with its artifacts) is gone unless that removal itself failed.
C4_DirRemovedUnlessRmtreeFailed ==
    pc = "Done" =>
        /\ chunk_dir # << >> => rmtreeCalls = 1
        /\ chunk_dir = << >> => ~dirExists /\ rmtreeCalls = 0
        /\ dirExists => rmtreeFailed
        /\ ~dirExists => artifacts = {}

C4_Witness ==
    /\ pc = "Done"
    /\ chunk_dir # << >>
    /\ ~dirExists
    /\ result = Success(joined)
    /\ FailedCount >= 1

\* C5: convert_audio decides by a strict comparison: a size of at most
\* MAX_CHUNK_SIZE - 1 is transcribed as one segment and split_audio is never
\* called; a size of MAX_CHUNK_SIZE or more calls split_audio exactly once.
C5_ThresholdDecision ==
    /\ splitCalls = (IF mode = "multi" THEN 1 ELSE 0)
    /\ mode # "none" =>
          /\ file.size <= MAX_CHUNK_SIZE - 1 => mode = "single" /\ chunks = <<0>>
          /\ file.size >= MAX_CHUNK_SIZE => mode = "multi"

C5_Witness ==
    /\ pc = "Done"
    /\ file.size = MAX_CHUNK_SIZE
    /\ splitCalls = 1

\* C6: for every duration > 0 and chunk length > 0 the segments partition
\* [0, duration): the first starts at 0, each ends where the next starts, the
\* last ends at the duration, and 0 <= start < end <= duration for each.
C6_SegmentsPartition ==
    (pc = "SplitDone" /\ file.duration > 0) =>
        /\ Len(tasks) >= 1
        /\ tasks[1].start = 0
        /\ \A k \in 1..(Len(tasks) - 1) : tasks[k].end = tasks[k + 1].start
        /\ tasks[Len(tasks)].end = file.duration
        /\ \A k \in 1..Len(tasks) :
              /\ 0 <= tasks[k].start
              /\ tasks[k].start < tasks[k].end
              /\ tasks[k].end <= file.duration

C6_Witness ==
    /\ pc = "SplitDone"
    /\ Len(tasks) >= 3
    /\ TaskLen(Len(tasks)) < chunk_length_ms

\* C7: split_audio builds exactly ceil(duration / chunk length) segments, the
\* number it computes as total_chunks; every segment but the last lasts
\* exactly the chunk length and the last lasts more than 0 and at most the
\* chunk length.
C7_SegmentCount ==
    pc = "SplitDone" =>
        /\ Len(tasks) = CeilDiv(file.duration, chunk_length_ms)
        /\ Len(tasks) = total_chunks
        /\ \A k \in 1..(Len(tasks) - 1) : TaskLen(k) = chunk_length_ms
        /\ Len(tasks) >= 1 =>
              /\ 0 < TaskLen(Len(tasks))
              /\ TaskLen(Len(tasks)) <= chunk_length_ms

C7_Witness ==
    /\ pc = "SplitDone"
    /\ total_chunks >= 2
    /\ Len(tasks) = total_chunks
    /\ file.duration % chunk_length_ms # 0

\* C8: the path list split_audio returns holds the artifact of segment i at
\* position i, whatever the completion order of the exports.
\* (Stated as the claim has it; the code appends in completion order.)
C8_PathsInIndexOrder ==
    (pc = "Transcribing" /\ mode = "multi") =>
        \A p \in DOMAIN chunks : chunks[p] = p - 1

\* C9: if the input path does not exist, transcribe_audio returns
\* success = false with the not-found error and does nothing else: no size
\* decision, no working directory, no export, no transcription call.
C9_NotFoundFailsFast ==
    ~file.exists =>
        /\ pc \in {"Created", "Validating", "Done"}
        /\ pc = "Done" => result = Failure(ErrNotFound)
        /\ mode = "none"
        /\ splitCalls = 0
        /\ chunk_dir = << >> /\ ~dirExists /\ artifacts = {}
        /\ exp = << >>
        /\ chunks = << >> /\ calls = << >>

C9_Witness ==
    /\ pc = "Done"
    /\ ~file.exists
    /\ result = Failure(ErrNotFound)

\* C10, as the claim has it: if split_audio fails, the run ends with a
\* success = false result, the working directory has been removed, and no
\* transcription call was issued.
C10_SplitFailureRemovesDir ==
    (pc = "Done" /\ splitFailed) =>
        /\ result = Failure(ErrException)
        /\ ~dirExists
        /\ chunks = << >> /\ calls = << >>

\* C10, amended: if split_audio fails, the run ends with a success = false
\* result, rmtree has been called once on the working directory before the
\* result is returned (the directory is gone unless that removal failed),
\* and no transcription call was issued.
C10_SplitFailureCleansUp ==
    /\ splitFailed => pc = "Done"
    /\ (pc = "Done" /\ splitFailed) =>
          /\ result = Failure(ErrException)
          /\ rmtreeCalls = 1
          /\ dirExists => rmtreeFailed
          /\ chunks = << >> /\ calls = << >> /\ transcripts = << >>

C10_Witness ==
    /\ pc = "Done"
    /\ splitFailed
    /\ \E k \in DOMAIN exp : exp[k] = "failed"
    /\ \E k \in DOMAIN exp : exp[k] = "ok"
    /\ ~dirExists

\* C11: every call of transcribe_audio that returns does so with a structured
\* result: success = true with a transcription and no error, or
\* success = false with a non-empty error and no transcription; before the
\* return there is no result.
C11_StructuredResult ==
    /\ pc # "Done" => result = NoResult
    /\ pc = "Done" =>
          \/ /\ DOMAIN result = {"success", "transcription"}
             /\ result.success = TRUE
          \/ /\ DOMAIN result = {"success", "error"}
             /\ result.success = FALSE
             /\ result.error \in {ErrNotFound, ErrEmpty, ErrException}
             /\ result.error # ""

C11_Witness ==
    /\ pc = "Done"
    /\ result = Failure(ErrException)
    /\ \E k \in DOMAIN exp : exp[k] = "failed"
    /\ rmtreeFailed

\* C12: transcribe_audio returns success = true, with the joined text, on
\* every run in which a segment produced a non-empty transcript, and only on
\* such runs.
\* (Stated as the claim has it; "only" fails on the all-failed run of C2.)
C12_SuccessIffSomeText ==
    (pc = "Done" /\ mode # "none" /\ ~splitFailed) =>
        /\ result.success <=> \E p \in DOMAIN tr : tr[p] = "text"
        /\ result.success => result = Success(joined)

\* C13, as the claim has it: transcribe_chunk never raises to its caller.
C13_NeverRaises == \A p \in DOMAIN tr : tr[p] # "raised"

Returns(p) == tr[p] \in {"text", "empty", "error"}

\* C13, amended: transcribe_chunk raises only when the artifact cannot be
\* opened, before any call of the service; once the service is called (the
\* call erring or the response having no text included) the worker returns a
\* value, the empty text on failure, and transcribe_chunks, once its main
\* thread is in the as_completed loop, holds one entry per worker that
\* returned, non-empty exactly for those that got text.
C13_RaisesOnlyAtOpen ==
    /\ \A p \in DOMAIN tr :
          /\ tr[p] = "raised" => calls[p] = 0
          /\ (calls[p] >= 1 /\ tr[p] # "calling") => Returns(p)
    /\ pc = "Transcribing" /\ ~iterating => transcripts = << >>
    /\ pc # "Transcribing" \/ iterating =>
          /\ Len(transcripts) = Cardinality({p \in DOMAIN tr : Returns(p)})
          /\ Cardinality({n \in DOMAIN transcripts : transcripts[n] # << >>})
                = Cardinality({p \in DOMAIN tr : tr[p] = "text"})

C13_Witness ==
    /\ pc = "Done"
    /\ \E p \in DOMAIN tr : tr[p] = "error"
    /\ \E p \in DOMAIN tr : tr[p] = "raised"
    /\ \E p \in DOMAIN tr : tr[p] = "text"

\* C14: the transcription service is invoked at most once per segment, and
\* exactly once for each segment whose artifact could be opened; no segment
\* is tried again after a failure and none is submitted twice.
C14_OneCallPerSegment ==
    /\ \A p \in DOMAIN tr :
          /\ calls[p] <= 1
          /\ tr[p] \in {"calling", "text", "empty", "error"} <=> calls[p] = 1
          /\ tr[p] \in {"pending", "raised"} <=> calls[p] = 0
    /\ \A p, q \in DOMAIN chunks : chunks[p] = chunks[q] => p = q
    /\ DOMAIN calls = DOMAIN chunks /\ DOMAIN tr = DOMAIN chunks

C14_Witness ==
    /\ pc = "Done"
    /\ Len(chunks) >= 2
    /\ \E p \in DOMAIN tr : tr[p] = "error" /\ calls[p] = 1
    /\ \E p \in DOMAIN tr : tr[p] = "raised" /\ calls[p] = 0

\* C16: the export phase and the transcription phase never overlap: when
\* transcribe_chunks has been entered every export of the run has ended (and
\* succeeded), and while an export is pending or running, or after one has
\* failed, no chunk is submitted and no call is made.
C16_PhasesDoNotOverlap ==
    /\ (mode = "multi" /\ (pc \in {"Transcribing", "Joining", "CleaningUp"}
                           \/ chunks # << >>))
          => \A k \in DOMAIN exp : exp[k] = "ok"
    /\ (\E k \in DOMAIN exp : exp[k] # "ok")
          => /\ pc \in {"Exporting", "Done"}
             /\ chunks = << >> /\ tr = << >> /\ calls = << >>

C16_Witness ==
    /\ pc = "Transcribing"
    /\ mode = "multi"
    /\ Len(exp) >= 2
    /\ \E p \in DOMAIN tr : tr[p] = "calling"

C15_BoundedParallelism ==
    /\ Cardinality(Running(exp)) <= max_threads
    /\ Cardinality(Running(tr)) <= max_threads

C15_Witness ==
    /\ max_threads < Len(tr)
    /\ Cardinality(Running(tr)) = max_threads
    /\ max_threads >= 2
    /\ \E p \in DOMAIN tr : tr[p] = "pending"

----------------------------------------------------------------------------
(* Two calls of transcribe_audio running concurrently in one process.      *)
(* Everything a call works on is a local of transcribe_audio,              *)
(* convert_audio, split_audio or transcribe_chunks, so each call has a     *)
(* record of its own in `runs`; what the calls share is the disk.  The     *)
(* exports are taken one step each and the transcription pool worker by    *)
(* worker.                                                                 *)

Runs == {1, 2}

\* Largest number of segments of an input of a concurrent call.
MaxRunSegments == 2

\* The input files and the word the service hears in each whole file and in
\* each of its segments.
Inputs == {"x", "y"}

InputPath(f) == <<"in", f>>

WholeWord == [x |-> "x", y |-> "y"]

SegWords == [x |-> <<"x0", "x1", "x2", "x3">>, y |-> <<"y0", "y1", "y2", "y3">>]

\* The credential the module reads from the environment when it is imported
\* (openai.api_key = os.getenv("OPENAI_API_KEY")), and the openai_api_key
\* arguments of the two calls.
ImportedKey == "OPENAI_API_KEY"

ArgKeys == <<"key1", "key2">>

CallCredentialOfArgument(openai_api_key, api_key) == openai_api_key

\* openai.Audio.transcribe(model="whisper-1", file=f) is given no key: the
\* request carries the module's openai.api_key.  The client that
\* transcribe_audio builds from its argument is dropped where it is built.
CallCredential(openai_api_key, api_key) == api_key

\* The random suffixes tempfile.mkdtemp may draw.
DirSuffixes == {"a", "b"}

RunDir(sfx) == Mkdtemp \o <<sfx>>

\* os.path.join(chunk_dir, f"chunk_{i:04d}.mp3")
ChunkPath(dir, i) == dir \o <<ChunkName(i)>>

MkdtempAnyName(d) == TRUE

\* tempfile.mkdtemp creates a directory that did not exist.
MkdtempFresh(d) == d \notin tmpdirs

\* Writing a file, and removing a directory with what is in it.
DiskWrite(path, word) ==
    [q \in DOMAIN disk \cup {path} |-> IF q = path THEN word ELSE disk[q]]

DiskRemoveEverything(dir) == [q \in {} |-> ""]

DiskRemoveTree(dir) ==
    [q \in {q \in DOMAIN disk : ~StartsWith(q, dir)} |-> disk[q]]

TwoRunInit ==
    /\ pc = "Created"
    /\ file = [exists |-> FALSE, size |-> 0, duration |-> 0, loadable |-> FALSE,
               oversize |-> {}]
    /\ chunk_length_ms = DefaultChunkLengthMs
    /\ max_threads = DefaultMaxThreads
    /\ InitRun
    /\ NoNames
    /\ NoDrive
    /\ runs \in [Runs -> [pc : {"Created"}, input : Inputs, split : BOOLEAN,
                          n : 1..MaxRunSegments, dir : {<< >>}, exp : {<< >>},
                          chunk_paths : {<< >>}, chunks : {<< >>}, tr : {<< >>},
                          heard : {<< >>}, transcripts : {<< >>},
                          joined : {<< >>}, result : {NoResult},
                          key : {ArgKeys[r] : r \in Runs}, creds : {<< >>}]]
    /\ runs[1].input = "x"
    /\ \A r \in Runs : runs[r].key = ArgKeys[r]
    /\ tmpdirs = {}
    /\ disk = [q \in {InputPath(f) : f \in Inputs} |-> WholeWord[q[2]]]

\* transcribe_audio up to convert_audio's size decision: the input exists;
\* the whole file is the one chunk, or split_audio is called.
RunDecide(r) ==
    /\ runs[r].pc = "Created"
    /\ IF runs[r].split
       THEN runs' = [runs EXCEPT ![r].pc = "Mkdtemp"]
       ELSE runs' = [runs EXCEPT ![r].pc = "Transcribing",
                                 ![r].chunks = <<InputPath(runs[r].input)>>,
                                 ![r].tr = <<"pending">>,
                                 ![r].heard = <<"">>,
                                 ![r].creds = <<"">>]
    /\ UNCHANGED <<oneVars, driveVars, nameVars, tmpdirs, disk>>

\* split_audio: tempfile.mkdtemp(prefix="audio_chunks_"), os.makedirs, the
\* load and the task list.
RunMkdtemp(r) ==
    /\ runs[r].pc = "Mkdtemp"
    /\ \E sfx \in DirSuffixes :
          /\ MkdtempFresh(RunDir(sfx))
          /\ tmpdirs' = tmpdirs \cup {RunDir(sfx)}
          /\ runs' = [runs EXCEPT ![r].pc = "Exporting",
                                  ![r].dir = RunDir(sfx),
                                  ![r].exp = [k \in 1..runs[r].n |-> "pending"]]
    /\ UNCHANGED <<oneVars, driveVars, nameVars, disk>>

\* split_audio's except clause in a concurrent call, and transcribe_audio's.
RunSplitRaises(r) ==
    /\ \/ /\ SplitCleanupGuard(runs[r].dir)
          /\ tmpdirs' = tmpdirs \ {runs[r].dir}
          /\ disk' = DiskRemoveTree(runs[r].dir)
       \/ UNCHANGED <<tmpdirs, disk>>
    /\ runs' = [runs EXCEPT ![r].pc = "Done",
                            ![r].result = Failure(ErrException)]

\* export_chunk for segment k - 1 writes its file and the path is appended,
\* or it raises.
RunExport(r, k) ==
    /\ runs[r].pc = "Exporting"
    /\ runs[r].exp[k] = "pending"
    /\ \/ /\ disk' = DiskWrite(ChunkPath(runs[r].dir, k - 1),
                               SegWords[runs[r].input][k])
          /\ runs' = [runs EXCEPT ![r].exp[k] = "ok",
                                  ![r].chunk_paths =
                                      Append(@, ChunkPath(runs[r].dir, k - 1))]
          /\ UNCHANGED tmpdirs
       \/ RunSplitRaises(r)
    /\ UNCHANGED <<oneVars, driveVars, nameVars, nameVars>>

\* split_audio after the pool: os.path.getsize of every path (it raises on a
\* missing file), the return, and transcribe_chunks' submissions.
RunSplitReturn(r) ==
    /\ runs[r].pc = "Exporting"
    /\ \A k \in DOMAIN runs[r].exp : runs[r].exp[k] = "ok"
    /\ IF \A i \in DOMAIN runs[r].chunk_paths : runs[r].chunk_paths[i] \in DOMAIN disk
       THEN /\ runs' = [runs EXCEPT ![r].pc = "Transcribing",
                                    ![r].chunks = runs[r].chunk_paths,
                                    ![r].tr = [p \in 1..runs[r].n |-> "pending"],
                                    ![r].heard = [p \in 1..runs[r].n |-> ""],
                                    ![r].creds = [p \in 1..runs[r].n |-> ""]]
            /\ UNCHANGED <<tmpdirs, disk>>
       ELSE RunSplitRaises(r)
    /\ UNCHANGED <<oneVars, driveVars, nameVars, nameVars>>

\* A thread of the call's own pool takes chunk p: open(chunk_path, "rb")
\* raises when the file is not there.
RunTranscribeStart(r, p) ==
    /\ runs[r].pc = "Transcribing"
    /\ runs[r].tr[p] = "pending"
    /\ PoolHasFreeWorker(runs[r].tr, DefaultMaxThreads)
    /\ IF runs[r].chunks[p] \in DOMAIN disk
       THEN runs' = [runs EXCEPT ![r].tr[p] = "calling",
                                 ![r].heard[p] = disk[runs[r].chunks[p]],
                                 ![r].creds[p] =
                                     CallCredential(runs[r].key, ImportedKey)]
       ELSE runs' = [runs EXCEPT ![r].tr[p] = "raised"]
    /\ UNCHANGED <<oneVars, driveVars, nameVars, tmpdirs, disk>>

\* The service returns the text of what it was sent and the main thread
\* appends it to the call's own list.  (The service's own failures, which
\* make transcribe_chunk return "", do not depend on the other call and are
\* those of Spec; here every call of the service succeeds.)
RunTranscribeFinish(r, p) ==
    /\ runs[r].pc = "Transcribing"
    /\ runs[r].tr[p] = "calling"
    /\ runs' = [runs EXCEPT ![r].tr[p] = "done",
                            ![r].transcripts = Append(@, <<runs[r].heard[p]>>)]
    /\ UNCHANGED <<oneVars, driveVars, nameVars, tmpdirs, disk>>

\* The pool is joined: " ".join(transcripts).
RunJoin(r) ==
    /\ runs[r].pc = "Transcribing"
    /\ \A p \in DOMAIN runs[r].tr : runs[r].tr[p] \in {"done", "raised"}
    /\ runs' = [runs EXCEPT ![r].pc = IF runs[r].split THEN "CleaningUp"
                                                        ELSE "Returning",
                            ![r].joined = Join(runs[r].transcripts)]
    /\ UNCHANGED <<oneVars, driveVars, nameVars, tmpdirs, disk>>

\* convert_audio's finally: shutil.rmtree(chunk_dir, ignore_errors=True).
RunCleanup(r) ==
    /\ runs[r].pc = "CleaningUp"
    /\ \/ /\ FinallyCleanupGuard(runs[r].dir)
          /\ tmpdirs' = tmpdirs \ {runs[r].dir}
          /\ disk' = DiskRemoveTree(runs[r].dir)
       \/ UNCHANGED <<tmpdirs, disk>>
    /\ runs' = [runs EXCEPT ![r].pc = "Returning"]
    /\ UNCHANGED <<oneVars, driveVars, nameVars, nameVars>>

\* transcribe_audio's `if not transcription` and its two results.
RunReturn(r) ==
    /\ runs[r].pc = "Returning"
    /\ runs' = [runs EXCEPT ![r].pc = "Done",
                            ![r].result = IF IsEmpty(runs[r].joined)
                                          THEN Failure(ErrEmpty)
                                          ELSE Success(runs[r].joined)]
    /\ UNCHANGED <<oneVars, driveVars, nameVars, tmpdirs, disk>>

TwoRunNext ==
    \E r \in Runs :
        \/ RunDecide(r)
        \/ RunMkdtemp(r)
        \/ \E k \in 1..MaxRunSegments : k <= runs[r].n /\ RunExport(r, k)
        \/ RunSplitReturn(r)
        \/ \E p \in 1..MaxRunSegments : p \in DOMAIN runs[r].tr /\ RunTranscribeStart(r, p)
        \/ \E p \in 1..MaxRunSegments : p \in DOMAIN runs[r].tr /\ RunTranscribeFinish(r, p)
        \/ RunJoin(r)
        \/ RunCleanup(r)
        \/ RunReturn(r)

TwoRunSpec == TwoRunInit /\ [][TwoRunNext]_vars

\* The phases of a run and their order.
Phase(p) ==
    CASE p \in {"Validating", "Deciding"} -> "Validating"
      [] p \in {"Splitting", "Exporting"} -> "Splitting"
      [] OTHER -> p

Rank(p) ==
    CASE Phase(p) = "Created" -> 0
      [] Phase(p) = "Validating" -> 1
      [] Phase(p) = "Splitting" -> 2
      [] Phase(p) = "Transcribing" -> 3
      [] Phase(p) = "Joining" -> 4
      [] Phase(p) = "CleaningUp" -> 5
      [] Phase(p) = "Done" -> 6

\* A step stays in its phase, enters the next one, or skips Splitting.
LinearStep ==
    \/ Rank(pc') = Rank(pc)
    \/ Rank(pc') = Rank(pc) + 1
    \/ Rank(pc) = 1 /\ Rank(pc') = 3

\* The exits to Done that leave phases out.
EarlyExit ==
    /\ pc' = "Done"
    /\ \/ Phase(pc) = "Validating" /\ ~file.exists
       \/ Phase(pc) = "Splitting" /\ splitFailed' /\ rmtreeCalls' = 1
       \/ Phase(pc) = "Joining" /\ mode = "single"

\* C18, as the claim has it: every run moves through Created, Validating,
\* optional Splitting, Transcribing, Joining, CleaningUp, Done in that order.
C18_LinearPhases == [][LinearStep]_vars

\* C18, amended: a run moves forward through the phases and never re-enters
\* one; it leaves the sequence for Done only from Validating (missing path),
\* from Splitting (split_audio raised, after its own removal of the
\* directory) and, in single-segment mode, from Joining (there is no
\* directory to clean up).  Splitting happens at most once, the join is
\* computed only after every transcription worker has finished, and in
\* multi-segment mode the removal happens after the join and before the
\* result is returned.
C18_ForwardPhases ==
    /\ [](/\ splitCalls <= 1
          /\ Rank(pc) >= 4 /\ ~splitFailed /\ mode # "none"
                => \A p \in DOMAIN tr : tr[p] \in {"text", "empty", "error", "raised"}
          /\ Rank(pc) <= 3 => joined = << >>
          /\ pc = "Joining" => rmtreeCalls = 0 /\ result = NoResult
          /\ pc = "CleaningUp" => mode = "multi" /\ rmtreeCalls = 1 /\ result = NoResult
          /\ (pc = "Done" /\ mode = "multi" /\ ~splitFailed) => rmtreeCalls = 1)
    /\ [][LinearStep \/ EarlyExit]_vars

C18_Witness ==
    /\ pc = "CleaningUp"
    /\ Len(chunks) >= 2
    /\ joined # << >>

\* C19: if every external call returns or raises and the workers are
\* scheduled fairly, every call of transcribe_audio returns.
C19_EventuallyReturns == <>(pc = "Done")

C19_Witness ==
    /\ pc = "Done"
    /\ Len(chunks) >= 3
    /\ \E p \in DOMAIN tr : tr[p] = "raised"
    /\ result.success = TRUE

\* The words of a concurrent call's own input.
OwnWords(r) ==
    {WholeWord[runs[r].input]}
    \cup {SegWords[runs[r].input][k] : k \in 1..runs[r].n}

\* The call's working directory is in use.
DirInUse(r) ==
    /\ runs[r].split
    /\ runs[r].pc \in {"Exporting", "Transcribing", "CleaningUp"}

\* C20: two concurrent calls of transcribe_audio share no run state: their
\* working directories are distinct; while a call transcribes, every
\* artifact it exported is on disk and holds its own audio, whatever the
\* other call wrote or removed; no worker of a call finds its file missing;
\* every text a call collected is a text of its own input, and the result it
\* returns is made of the texts it collected, as when it runs alone.
C20_RunsIsolated ==
    \A r \in Runs :
        /\ \A o \in Runs \ {r} :
              DirInUse(r) /\ DirInUse(o) => runs[r].dir # runs[o].dir
        /\ DirInUse(r) => runs[r].dir \in tmpdirs
        /\ runs[r].pc = "Transcribing" =>
              \A p \in DOMAIN runs[r].chunks :
                  /\ runs[r].chunks[p] \in DOMAIN disk
                  /\ disk[runs[r].chunks[p]] \in OwnWords(r)
        /\ \A p \in DOMAIN runs[r].tr : runs[r].tr[p] # "raised"
        /\ \A i \in DOMAIN runs[r].transcripts :
              \A j \in DOMAIN runs[r].transcripts[i] :
                  runs[r].transcripts[i][j] \in OwnWords(r)
        /\ runs[r].pc \in {"CleaningUp", "Returning", "Done"} /\ runs[r].chunks # << >> =>
              /\ Len(runs[r].transcripts) = Len(runs[r].chunks)
              /\ runs[r].joined = Join(runs[r].transcripts)
        /\ runs[r].pc = "Done" /\ runs[r].chunks # << >> =>
              runs[r].result = IF runs[r].joined = << >>
                               THEN Failure(ErrEmpty)
                               ELSE Success(runs[r].joined)

\* One call has removed its directory while the other, on a different input,
\* is in the middle of transcribing its own artifacts.
C20_Witness ==
    \E r \in Runs : \E o \in Runs \ {r} :
        /\ runs[r].split /\ runs[o].split
        /\ runs[r].input # runs[o].input
        /\ runs[r].pc = "Returning"
        /\ runs[r].joined # << >>
        /\ runs[r].dir \notin tmpdirs
        /\ runs[o].pc = "Transcribing"
        /\ runs[o].transcripts # << >>
        /\ \E p \in DOMAIN runs[o].tr : runs[o].tr[p] = "calling"

\* C21: a failure of one segment's transcription never aborts or cancels
\* its siblings: all N segments are submitted, and when transcribe_chunks
\* has returned every segment was attempted (its file opened and the service
\* called once, or the open raised), every value a worker returned was
\* collected, and the join of the collected values was computed; and a run
\* that is transcribing reaches the join.
C21_FailureDoesNotAbortSiblings ==
    /\ [](/\ pc = "Transcribing" =>
                /\ DOMAIN tr = DOMAIN chunks
                /\ mode = "multi" => Len(chunks) = Len(tasks)
          /\ JoinDone =>
                /\ \A p \in DOMAIN tr :
                      \/ tr[p] = "raised" /\ calls[p] = 0
                      \/ tr[p] \in {"text", "empty", "error"} /\ calls[p] = 1
                /\ Len(transcripts)
                      = Cardinality({p \in DOMAIN tr : tr[p] \in {"text", "empty", "error"}})
                /\ joined = Join(transcripts))
    /\ (pc = "Transcribing") ~> (pc = "Joining")

C21_Witness ==
    /\ pc = "Joining"
    /\ Len(chunks) = 3
    /\ tr[1] = "error"
    /\ tr[2] = "text" /\ tr[3] = "text"
    /\ Len(transcripts) = 3
    /\ transcripts[1] = << >>

\* C22: a failure of one export does not cancel the other exports: every
\* task is submitted, and when split_audio reports its outcome (it raised,
\* or it returned and the transcription began) every submitted export has
\* run to completion, succeeding or failing.
C22_ExportFailureDoesNotCancel ==
    /\ pc = "Exporting" => Len(exp) = Len(tasks)
    /\ (splitFailed /\ file.loadable) =>
          /\ Len(exp) = Len(tasks)
          /\ \A k \in DOMAIN exp : exp[k] \in {"ok", "failed"}
          /\ \E k \in DOMAIN exp : exp[k] = "failed"
    /\ (mode = "multi" /\ pc \in {"Transcribing", "Joining", "CleaningUp"}) =>
          \A k \in DOMAIN exp : exp[k] = "ok"

\* One thread: the first export failed while the other two were waiting in
\* the queue, and both still ran.
C22_Witness ==
    /\ pc = "Done"
    /\ splitFailed
    /\ max_threads = 1
    /\ Len(exp) = 3
    /\ exp[1] = "failed"
    /\ exp[2] = "ok" /\ exp[3] = "ok"

\* C23: an exported artifact larger than MAX_CHUNK_SIZE is only flagged: the
\* flagged artifacts are exactly the returned ones above the limit, each of
\* them is in the list handed to transcribe_chunks and is transcribed like
\* any other segment (one worker, at most one call), and split_audio runs at
\* most once: nothing is split or exported again.
C23_OversizeOnlyFlagged ==
    /\ splitCalls <= 1
    /\ Len(exp) <= Len(tasks)
    /\ (mode = "multi" /\ pc \in {"Transcribing", "Joining", "CleaningUp"}) =>
          /\ warned = {i \in file.oversize : \E n \in DOMAIN chunk_paths : chunk_paths[n] = i}
          /\ warned = file.oversize
          /\ chunks = chunk_paths
          /\ Len(chunks) = TotalChunks(file.duration, chunk_length_ms)
          /\ \A i \in warned : \E p \in DOMAIN chunks :
                /\ chunks[p] = i
                /\ p \in DOMAIN tr
                /\ calls[p] <= 1
                /\ pc # "Transcribing" => tr[p] \in {"text", "empty", "error", "raised"}
    /\ pc # "Exporting" /\ mode = "multi" /\ ~splitFailed /\ chunks # << >> =>
          \A k \in DOMAIN exp : exp[k] = "ok"

\* Segment 1 of three is too large, was flagged, and its text is in the
\* returned transcript.
C23_Witness ==
    /\ pc = "Done"
    /\ file.oversize = {1}
    /\ warned = {1}
    /\ Len(chunks) = 3
    /\ \A p \in DOMAIN tr : tr[p] = "text"
    /\ result.success = TRUE
    /\ \E n \in DOMAIN result.transcription : result.transcription[n] = Words[2]

\* a sorts before b as Python strings do.
LexLess(a, b) ==
    \E k \in 1..(Min(Len(a), Len(b)) + 1) :
        /\ \A n \in 1..(k - 1) : a[n] = b[n]
        /\ \/ k > Len(a) /\ k <= Len(b)
           \/ k <= Len(a) /\ k <= Len(b) /\ a[k] < b[k]

\* C27, as the claim has it: for any two segments i < j of one run the name
\* of i differs from and sorts before the name of j, for every segment
\* count the splitter can produce.
C27_NamesSortInIndexOrder ==
    pc = "NameDone" => names[1] # names[2] /\ LexLess(names[1], names[2])

\* C27, amended: the names of two segments i < j always differ; the name of
\* i sorts before the name of j when j fits the padded width (j <= 9999,
\* that is for runs of at most 10000 segments), and then both names have the
\* same length.  04d is a minimum width: from index 10000 on the names are
\* longer and no longer sort by index.
C27_NamesSortUpToPaddedWidth ==
    pc = "NameDone" =>
        /\ names[1] # names[2]
        /\ probe[2] < 10 ^ PaddedWidth =>
              /\ LexLess(names[1], names[2])
              /\ Len(names[1]) = Len(names[2])
        /\ probe[2] >= 10 ^ PaddedWidth => Len(names[2]) > Len(ChunkName(0))

C27_Witness ==
    /\ pc = "NameDone"
    /\ probe = <<9, 10>>
    /\ names[1] = ChunkPrefix \o <<48, 48, 48, 57>> \o ChunkSuffix
    /\ names[2] = ChunkPrefix \o <<48, 48, 49, 48>> \o ChunkSuffix

\* What a step of a worker looks like: an export or a transcription changes
\* state while the main thread stays in the pool's with block.
WorkerStep ==
    \/ pc = "Exporting" /\ pc' = "Exporting" /\ exp' # exp
    \/ pc = "Transcribing" /\ pc' = "Transcribing" /\ tr' # tr

\* One worker's future finishes and its value is appended.
OneResultAppended ==
    \E p \in DOMAIN tr :
        /\ tr[p] = "calling"
        /\ tr'[p] \in {"text", "empty", "error"}
        /\ \A q \in DOMAIN tr \ {p} : tr'[q] = tr[q]
        /\ transcripts' = Append(transcripts, ChunkResult(chunks[p], tr'[p]))

\* The main thread enters the loop and appends the values of the futures
\* that are finished, one per future.
FinishedResultsAppended ==
    /\ ~iterating /\ iterating'
    /\ tr' = tr
    /\ \E order \in Orders({p \in DOMAIN tr : tr[p] \in {"text", "empty", "error"}}) :
          transcripts' = [n \in 1..Len(order) |-> ChunkResult(chunks[order[n]], tr[order[n]])]

\* C24: within a run no two workers work on the same index and the result
\* of a segment enters the result collection at most once, appended for
\* exactly one future; an export writes the one artifact assigned to it and
\* the assigned names are pairwise distinct; no step of a worker removes an
\* artifact or creates or removes the working directory: the directory is
\* created by split_audio and removed by split_audio's except clause or by
\* convert_audio's finally clause only.
C24_WritersAndFrames ==
    /\ [](/\ \A p, q \in DOMAIN chunks : chunks[p] = chunks[q] => p = q
          /\ Len(transcripts) <= Cardinality({p \in DOMAIN tr : tr[p] \in {"text", "empty", "error"}})
          /\ \A m, n \in DOMAIN transcripts :
                (m # n /\ transcripts[m] = transcripts[n]) => transcripts[m] = << >>
          /\ \A k, j \in DOMAIN tasks : k # j => ChunkName(k - 1) # ChunkName(j - 1)
          /\ artifacts \subseteq {k - 1 : k \in {k \in DOMAIN exp : exp[k] = "ok"}})
    /\ [][/\ transcripts' # transcripts =>
                \/ transcripts' = << >> /\ pc # "Transcribing" /\ pc' = "Transcribing"
                \/ pc = "Transcribing" /\ pc' = "Transcribing" /\ iterating
                       /\ OneResultAppended
                \/ pc = "Transcribing" /\ pc' = "Transcribing" /\ FinishedResultsAppended
          /\ artifacts' # artifacts =>
                \/ \E k \in DOMAIN exp :
                      /\ exp[k] = "running" /\ exp'[k] = "ok"
                      /\ artifacts' = artifacts \cup {k - 1}
                \/ artifacts' = {} /\ rmtreeCalls' = rmtreeCalls + 1 /\ ~WorkerStep
          /\ WorkerStep =>
                /\ dirExists' = dirExists /\ chunk_dir' = chunk_dir
                /\ rmtreeCalls' = rmtreeCalls
                /\ artifacts \subseteq artifacts'
          /\ (dirExists' # dirExists \/ rmtreeCalls' # rmtreeCalls \/ chunk_dir' # chunk_dir) =>
                \/ pc = "Deciding" /\ pc' = "Splitting" /\ dirExists' /\ ~dirExists
                \/ pc \in {"Splitting", "Exporting"} /\ pc' = "Done" /\ splitFailed'
                \/ pc = "Joining" /\ pc' = "CleaningUp"]_vars

C24_Witness ==
    /\ pc = "Transcribing"
    /\ Len(chunks) = 3
    /\ chunks # SegIndices
    /\ artifacts = {0, 1, 2}
    /\ Len(transcripts) = 2
    /\ transcripts[1] # << >> /\ transcripts[2] # << >>
    /\ \E p \in DOMAIN tr : tr[p] = "calling"

\* C25: a failure of the removal of the working directory never changes the
\* run's outcome: what transcribe_audio returns is determined by the primary
\* outcome alone (path missing, split failed, or the joined transcript),
\* whether rmtree succeeded or failed, and the removal step itself leaves
\* the transcript and the result as they are.
C25_RemovalFailureNotEscalated ==
    /\ pc = "Done" =>
          result = IF mode = "none" THEN Failure(ErrNotFound)
                   ELSE IF splitFailed THEN Failure(ErrException)
                   ELSE IF joined = << >> THEN Failure(ErrEmpty)
                   ELSE Success(joined)
    /\ pc = "CleaningUp" => result = NoResult /\ joined = Join(transcripts)
    /\ rmtreeFailed => rmtreeCalls = 1 /\ dirExists

\* The removal failed, the directory is still there, and the run returned
\* its transcript.
C25_Witness ==
    /\ pc = "Done"
    /\ rmtreeFailed
    /\ dirExists
    /\ ~splitFailed
    /\ result = Success(joined)
    /\ Len(chunks) >= 2

\* C26: there is no timeout and no cancellation.  While a transcription call
\* has not returned, its worker occupies a slot of the pool (a waiting
\* segment starts only when fewer than max_threads workers are busy, the
\* outstanding call included), the run is still inside transcribe_chunks: it
\* has not joined, has not removed its working directory and has not
\* returned; and when the first call hangs and the pool has another slot,
\* every other segment is still transcribed.
C26_HungCallStallsRun ==
    /\ []((\E p \in DOMAIN tr : tr[p] = "calling") =>
             /\ pc = "Transcribing"
             /\ joined = << >>
             /\ result = NoResult
             /\ rmtreeCalls = 0
             /\ mode = "multi" => dirExists)
    /\ [][\A p \in DOMAIN tr :
             (tr[p] = "pending" /\ p \in DOMAIN tr' /\ tr'[p] # "pending")
                => Cardinality({q \in DOMAIN tr : tr[q] = "calling"}) < max_threads]_vars
    /\ (Len(tr) >= 1 /\ tr[1] = "calling" /\ max_threads >= 2)
          ~> (\A q \in DOMAIN tr \ {1} : tr[q] \in {"text", "empty", "error", "raised"})

\* Two slots, three segments: the first call is outstanding, the other two
\* segments were transcribed on the other slot, and the run waits.
C26_Witness ==
    /\ pc = "Transcribing"
    /\ max_threads = 2
    /\ Len(tr) = 3
    /\ tr[1] = "calling"
    /\ tr[2] = "text" /\ tr[3] = "text"
    /\ Len(transcripts) = 2
    /\ dirExists

\* C28: the working directory is never removed while a worker of the run is
\* waiting or running: when rmtree is called, in split_audio's except clause
\* or in convert_audio's finally clause, every export and every
\* transcription worker has finished; no worker is active once the directory
\* is gone, and none when transcribe_audio has returned.
C28_NoRemovalWhileWorkersActive ==
    /\ [](((rmtreeCalls >= 1) \/ (chunk_dir # << >> /\ ~dirExists) \/ pc = "Done") =>
             /\ \A k \in DOMAIN exp : exp[k] \in {"ok", "failed"}
             /\ \A p \in DOMAIN tr : tr[p] \in {"text", "empty", "error", "raised"})
    /\ [][rmtreeCalls' # rmtreeCalls =>
             /\ \A k \in DOMAIN exp : exp[k] \in {"ok", "failed"}
             /\ \A p \in DOMAIN tr : tr[p] \in {"text", "empty", "error", "raised"}
             /\ exp' = exp /\ tr' = tr]_vars

\* The directory was removed in split_audio's except clause after three
\* exports, one of which failed.
C28_Witness ==
    /\ pc = "Done"
    /\ splitFailed
    /\ rmtreeCalls = 1
    /\ ~dirExists
    /\ Len(exp) = 3
    /\ Cardinality({k \in DOMAIN exp : exp[k] = "ok"}) = 2

\* The separators of a joined text.
Separators(t) == Cardinality({n \in DOMAIN t : t[n] = SPACE})

\* C29: when a transcription worker raises instead of returning,
\* transcribe_chunks collects no entry for its segment: once it has returned,
\* the number of joined entries is the number of workers that returned a
\* value (N minus the workers that raised, so at most N), a worker that
\* returned the empty string included, and the joined transcript has exactly
\* entries - 1 separators (none when there is no entry: the join is then
\* the empty string).
C29_RaisedWorkerLeavesNoEntry ==
    JoinDone =>
        /\ Len(transcripts)
              = Cardinality({p \in DOMAIN tr : tr[p] \in {"text", "empty", "error"}})
        /\ Len(transcripts)
              = Len(chunks) - Cardinality({p \in DOMAIN tr : tr[p] = "raised"})
        /\ Len(transcripts) <= Len(chunks)
        /\ Cardinality({n \in DOMAIN transcripts : transcripts[n] = << >>})
              = Cardinality({p \in DOMAIN tr : tr[p] \in {"empty", "error"}})
        /\ Len(transcripts) >= 1 => Separators(joined) = Len(transcripts) - 1
        /\ Len(transcripts) = 0 => joined = << >>

\* Three segments: one worker raised, one returned the empty string, one
\* returned text; two entries, one separator.
C29_Witness ==
    /\ pc = "Joining"
    /\ Len(chunks) = 3
    /\ Cardinality({p \in DOMAIN tr : tr[p] = "raised"}) = 1
    /\ Cardinality({p \in DOMAIN tr : tr[p] = "empty"}) = 1
    /\ Cardinality({p \in DOMAIN tr : tr[p] = "text"}) = 1
    /\ Len(transcripts) = 2
    /\ Separators(joined) = 1

\* The positions whose worker returned a value, in increasing order, and
\* what a sequential pipeline that takes the segments in index order
\* collects for them.
ReturnedPositions == SelectSeq([p \in 1..Len(tr) |-> p], Returns)

SequentialTranscripts ==
    [n \in 1..Len(ReturnedPositions) |->
        ChunkResult(ReturnedPositions[n] - 1, SegOutcome(ReturnedPositions[n] - 1))]

\* C30: with one worker in both phases (max_threads = 1) split_audio
\* returns the paths in index order and transcribe_chunks joins the texts in
\* index order: the transcript is that of a sequential pipeline taking the
\* segments in index order.  (Stated as the claim has it.)
C30_WidthOneIsSequential ==
    (max_threads = 1 /\ mode = "multi" /\ ~splitFailed
       /\ pc \in {"Joining", "CleaningUp", "Done"})
    => /\ chunks = SegIndices
       /\ joined = Join(SequentialTranscripts)

(***************************************************************************)
(* C31.  The frame of transcribe_audio on the disk.                        *)
(***************************************************************************)

\* The paths a step deletes or whose content it changes.
C31_Touched ==
    (DOMAIN disk \ DOMAIN disk')
        \cup {q \in DOMAIN disk \cap DOMAIN disk' : disk'[q] # disk[q]}

\* What a step of call r may take away: nothing when the call transcribes
\* the whole file; otherwise only the directory split_audio returned and the
\* files in it, and that directory lies under the temp directory.
C31_OwnRemovalOnly(r) ==
    /\ \A q \in C31_Touched :
          /\ runs[r].split
          /\ runs[r].dir # << >>
          /\ StartsWith(q, runs[r].dir)
    /\ \A d \in tmpdirs \ tmpdirs' :
          /\ runs[r].split
          /\ d = runs[r].dir
          /\ StartsWith(d, TempDir)
    /\ ~runs[r].split => tmpdirs' = tmpdirs /\ disk' = disk

\* C31: transcribe_audio never deletes or modifies its input file and never
\* removes anything outside the working directory it created: a single-segment
\* call removes no directory at all, and a multi-segment call removes only the
\* chunk directory split_audio returned, which lies under the temp directory.
C31_RemovesOnlyOwnChunkDir ==
    /\ [](\A f \in Inputs :
             /\ InputPath(f) \in DOMAIN disk
             /\ disk[InputPath(f)] = WholeWord[f])
    /\ [][disk' # disk \/ tmpdirs' # tmpdirs =>
              \A r \in Runs : runs'[r] # runs[r] => C31_OwnRemovalOnly(r)]_vars

\* A multi-segment call has returned its transcript with its chunk directory
\* and the files in it gone, next to a finished single-segment call, and
\* both inputs are still on the disk.
C31_Witness ==
    \E r \in Runs : \E o \in Runs \ {r} :
        /\ runs[r].pc = "Done" /\ runs[r].split
        /\ runs[r].result.success
        /\ runs[r].dir # << >> /\ runs[r].dir \notin tmpdirs
        /\ \A q \in DOMAIN disk : ~StartsWith(q, runs[r].dir)
        /\ runs[o].pc = "Done" /\ ~runs[o].split
        /\ \A f \in Inputs : InputPath(f) \in DOMAIN disk

(***************************************************************************)
(* C32.  An input that is split and whose audio has no length.             *)
(***************************************************************************)

\* The input is there, its size is at or above the threshold, it loads and
\* len(audio) is 0.
C32_ZeroDurationSplit ==
    /\ file.exists
    /\ NeedsSplit(file.size)
    /\ file.loadable
    /\ file.duration = 0

C32_ZeroSegmentsEmptyFailure ==
    /\ calls = << >>
    /\ tasks = << >> /\ total_chunks = 0
    /\ pc = "Done" =>
          /\ mode = "multi" /\ splitCalls = 1 /\ ~splitFailed
          /\ chunk_paths = << >> /\ chunks = << >>
          /\ transcripts = << >> /\ joined = << >>
          /\ result = Failure(ErrEmpty)

\* The statement as the specification has it: the working directory is gone
\* at the return.
C32_ZeroDurationRemovesDir ==
    C32_ZeroDurationSplit =>
        /\ C32_ZeroSegmentsEmptyFailure
        /\ pc = "Done" => ~dirExists

\* C32: for an input at or above the size threshold whose audio has duration
\* 0, split_audio produces zero segments, no transcription call is made, the
\* joined transcript is empty, transcribe_audio returns the empty-result
\* failure, and shutil.rmtree has been called once on the working directory,
\* which is gone unless that removal failed.
C32_ZeroDurationFailsEmpty ==
    C32_ZeroDurationSplit =>
        /\ C32_ZeroSegmentsEmptyFailure
        /\ pc = "Done" =>
              /\ chunk_dir # << >>
              /\ rmtreeCalls = 1
              /\ dirExists => rmtreeFailed

C32_Witness ==
    /\ C32_ZeroDurationSplit
    /\ pc = "Done"
    /\ result = Failure(ErrEmpty)
    /\ splitCalls = 1 /\ rmtreeCalls = 1
    /\ ~dirExists

(***************************************************************************)
(* C33.  The openai_api_key argument and the credential of the requests.   *)
(***************************************************************************)

\* The requests call r has issued: what was sent and the credential it was
\* sent with.
C33_Requests(r) ==
    {<<runs[r].heard[p], runs[r].creds[p]>> :
        p \in {p \in DOMAIN runs[r].tr : runs[r].tr[p] \in {"calling", "done"}}}

\* Two calls that differ in nothing but the openai_api_key argument: the
\* same input, and the exports of the two went the same way.
C33_DifferOnlyInKey(r, o) ==
    /\ runs[r].key # runs[o].key
    /\ runs[r].input = runs[o].input
    /\ runs[r].split = runs[o].split
    /\ runs[r].n = runs[o].n
    /\ runs[r].exp = runs[o].exp

\* C33: the openai_api_key argument of transcribe_audio does not influence
\* the transcription calls: every request carries the process-global
\* credential set at import time, whatever the argument, and two calls that
\* differ only in the argument issue the same requests and, with their
\* results collected in the same order, return the same result.
C33_ArgumentKeyUnused ==
    /\ \A r \in Runs : \A q \in C33_Requests(r) : q[2] = ImportedKey
    /\ \A r \in Runs : \A o \in Runs \ {r} :
          /\ C33_DifferOnlyInKey(r, o)
          /\ runs[r].pc = "Done" /\ runs[o].pc = "Done"
          => /\ C33_Requests(r) = C33_Requests(o)
             /\ runs[r].result.success = runs[o].result.success
             /\ runs[r].transcripts = runs[o].transcripts
                    => runs[r].result = runs[o].result

\* Two calls on the same input, split into two segments each, called with
\* different keys, have both returned the same transcript after issuing
\* their requests with the imported credential.
C33_Witness ==
    /\ C33_DifferOnlyInKey(1, 2)
    /\ runs[1].split /\ runs[1].n = 2
    /\ runs[1].pc = "Done" /\ runs[2].pc = "Done"
    /\ Cardinality(C33_Requests(1)) = 2
    /\ \A q \in C33_Requests(1) \cup C33_Requests(2) : q[2] = ImportedKey
    /\ runs[1].result.success
    /\ runs[1].result = runs[2].result

-----------------------------------------------------------------------------
(***************************************************************************)
(* process_folder (drive_audio_processor.py) run over one Drive folder,    *)
(* once and again.  The folder holds audio files and the JSON results the  *)
(* runs upload; it has no subfolders and nobody else changes it.  A file   *)
(* name is the sequence of its parts, the extension last.                  *)
(***************************************************************************)

\* Largest number of audio files in the folder, and of runs over it.
MaxFiles == 2

MaxFolderRuns == 2

AUDIO_EXTENSIONS == {".mp3", ".wav", ".m4a"}

OUTPUT_FILE_AFFIX == "_TRANSCRIPT"

OUTPUT_FILE_EXTENSION == ".json"

\* The names an audio file of the folder may have.
FolderNames == {<<"a", ".mp3">>, <<"a", ".wav">>, <<"b", ".m4a">>}

\* os.path.splitext(file_name): the base name and the extension.
Splitext(file_name) ==
    <<SubSeq(file_name, 1, Len(file_name) - 1), file_name[Len(file_name)]>>

\* f"{base_name}{OUTPUT_FILE_AFFIX}{OUTPUT_FILE_EXTENSION}"
OutputFilename(file_name) ==
    Splitext(file_name)[1] \o <<OUTPUT_FILE_AFFIX, OUTPUT_FILE_EXTENSION>>

\* The query term name contains '<ext>'.
NameContains(name, ext) == \E i \in DOMAIN name : name[i] = ext

\* The ids of the folder's files: the audio files first, then the results.
FileIds == 1..(Len(folder_audio) + Len(json_files))

FileName(file_id) ==
    IF file_id <= Len(folder_audio)
    THEN folder_audio[file_id]
    ELSE json_files[file_id - Len(folder_audio)].name

\* list_files_in_folder(service, folder_id, AUDIO_EXTENSIONS) when no request
\* fails: the files whose name contains one of the extensions.
AudioListing ==
    SelectSeq([i \in FileIds |-> i],
              LAMBDA file_id :
                  \E ext \in AUDIO_EXTENSIONS : NameContains(FileName(file_id), ext))

\* get_processed_files_map's loop over the JSON files it could download:
\* processed_files[data['original_file']] = file['name'], a later file
\* overwriting an earlier one.
BuildMap(read) ==
    [n \in {json_files[i].original_file : i \in read} |->
        json_files[CHOOSE i \in read :
                      /\ json_files[i].original_file = n
                      /\ \A j \in read :
                            json_files[j].original_file = n => j <= i].name]

CheckIfProcessedFileExistsNever(map, file_name) == FALSE

\* check_if_processed_file_exists: file_name in processed_files_map.
CheckIfProcessedFileExists(map, file_name) == file_name \in DOMAIN map

\* How far the processing of one file gets.
Outcomes == {"download_failed", "no_key", "transcription_failed",
             "analysis_failed", "upload_failed", "uploaded"}

FolderInit ==
    /\ pc = "Created"
    /\ file = [exists |-> FALSE, size |-> 0, duration |-> 0, loadable |-> FALSE,
               oversize |-> {}]
    /\ chunk_length_ms = DefaultChunkLengthMs
    /\ max_threads = DefaultMaxThreads
    /\ InitRun
    /\ NoNames
    /\ runs = << >> /\ tmpdirs = {} /\ disk = << >>
    /\ folder_audio \in UNION {[1..n -> FolderNames] : n \in 1..MaxFiles}
    /\ json_files = << >>
    /\ folder_pc = "Idle"
    /\ run_no = 0
    /\ processed_files_map = << >>
    /\ json_at_map = 0
    /\ audio_files = << >>
    /\ downloaded = {}
    /\ transcribed = {}
    /\ uploaded = {}

\* process_folder up to the map: get_processed_files_map lists the folder's
\* JSON files and reads each one it can download; a file whose download
\* fails is passed over, and a failed listing gives the empty map, which is
\* also what reading none of them gives.
GetProcessedFilesMap ==
    /\ folder_pc = "Idle"
    /\ run_no < MaxFolderRuns
    /\ run_no' = run_no + 1
    /\ json_at_map' = Len(json_files)
    /\ \E read \in SUBSET (1..Len(json_files)) :
          processed_files_map' = BuildMap(read)
    /\ downloaded' = {}
    /\ transcribed' = {}
    /\ uploaded' = {}
    /\ folder_pc' = "Mapped"
    /\ UNCHANGED <<oneVars, peerVars, nameVars, folder_audio, json_files, audio_files>>

\* audio_files = list_files_in_folder(service, folder_id, AUDIO_EXTENSIONS):
\* a request that fails ends the listing with what the earlier pages gave.
ListAudioFiles ==
    /\ folder_pc = "Mapped"
    /\ \E k \in 0..Len(AudioListing) : audio_files' = SubSeq(AudioListing, 1, k)
    /\ folder_pc' = "Files"
    /\ UNCHANGED <<oneVars, peerVars, nameVars, folder_audio, json_files, run_no,
                   processed_files_map, json_at_map, downloaded, transcribed,
                   uploaded>>

\* One round of process_folder's loop: no parent folder, or the file is in
\* the map (continue); otherwise process_audio_file downloads, transcribes
\* and analyses, and the result is uploaded next to the file.  Every failure
\* on the way ends the round.
ProcessFile ==
    /\ folder_pc = "Files"
    /\ audio_files # << >>
    /\ LET file_id == Head(audio_files)
           file_name == FileName(file_id)
       IN  \/ UNCHANGED <<json_files, downloaded, transcribed, uploaded>>
           \/ /\ ~CheckIfProcessedFileExists(processed_files_map, file_name)
              /\ \E outcome \in Outcomes :
                    /\ downloaded' = downloaded \cup {file_id}
                    /\ transcribed' =
                          IF outcome \in {"download_failed", "no_key"}
                          THEN transcribed
                          ELSE transcribed \cup {file_id}
                    /\ uploaded' =
                          IF outcome \in {"upload_failed", "uploaded"}
                          THEN uploaded \cup {file_id}
                          ELSE uploaded
                    /\ json_files' =
                          IF outcome = "uploaded"
                          THEN Append(json_files,
                                      [name |-> OutputFilename(file_name),
                                       original_file |-> file_name])
                          ELSE json_files
    /\ audio_files' = Tail(audio_files)
    /\ UNCHANGED <<oneVars, peerVars, nameVars, folder_audio, folder_pc, run_no,
                   processed_files_map, json_at_map>>

\* The loop is over and process_folder returns.
FinishRun ==
    /\ folder_pc = "Files"
    /\ audio_files = << >>
    /\ folder_pc' = "Idle"
    /\ UNCHANGED <<oneVars, peerVars, nameVars, folder_audio, json_files, run_no,
                   processed_files_map, json_at_map, audio_files, downloaded,
                   transcribed, uploaded>>

FolderNext ==
    \/ GetProcessedFilesMap
    \/ ListAudioFiles
    \/ ProcessFile
    \/ FinishRun

FolderSpec == FolderInit /\ [][FolderNext]_vars

(***************************************************************************)
(* C34.  A second run over a folder that was processed.                    *)
(***************************************************************************)

\* The file's name is the original_file of a JSON result that was in the
\* folder when this run built its map.
C34_HadResult(file_id) ==
    \E i \in 1..json_at_map : json_files[i].original_file = FileName(file_id)

\* A later run over a folder whose audio files have pairwise distinct names
\* and all had their result uploaded before the run built its map.
C34_SecondRunAllProcessed ==
    /\ run_no >= 2
    /\ \A i, j \in DOMAIN folder_audio : i # j => folder_audio[i] # folder_audio[j]
    /\ \A file_id \in DOMAIN folder_audio : C34_HadResult(file_id)

C34_MapComplete ==
    \A i \in 1..json_at_map :
        json_files[i].original_file \in DOMAIN processed_files_map

============================================================================
